---- MODULE Spec2Model ----
(***************************************************************************)
(* Model of the okchain ledger subsystem:                                  *)
(*   - x/token keeper: LockCoins / UnlockCoins / updateLockCoins           *)
(*   - x/dex keeper: token-pair registry and cache, Deposit / Withdraw /   *)
(*     TransferOwnership / CompleteWithdraw and the withdraw time index.   *)
(* Every keeper method is one action; `call' records the method and its    *)
(* arguments, `ret' the error it returned ("nil" on success).              *)
(***************************************************************************)
EXTENDS Integers, Sequences, FiniteSets, TLC

VARIABLES
    \* x/token keeper
    lockStore,        \* lockStoreKey store: addr -> sorted DecCoins, or Nil
    tokenAccCoins,    \* bank: spendable DecCoins of each account
    tokenModuleCoins, \* bank: DecCoins held by the token module account
    \* x/dex keeper
    tokenPairStore,     \* tokenPairStoreKey store: product -> TokenPair, or Nil
    userTokenPairStore, \* tokenPairStoreKey store: the (owner, product) keys set
    tokenPairNumber,    \* tokenPairStoreKey store: value under TokenPairNumberKey
    cacheTokenPairMap,  \* cache: product -> TokenPair, or Nil
    cacheNewTokenPairs, \* cache: pairs added by SaveTokenPair since the last Reset
    withdrawInfoStore,  \* storeKey store: owner -> WithdrawInfo, or Nil
    withdrawTimeKeys,   \* storeKey store: the (complete time, owner) keys set
    dexAccCoins,        \* bank: spendable bond-denom amount of each account
    dexModuleCoins,     \* bank: bond-denom amount held by the dex module account
    blockTime,          \* ctx.BlockHeader().Time
    withdrawPeriod,     \* params: WithdrawPeriod
    defaultTokenPairDeposit, \* types.DefaultTokenPairDeposit (amount, bond denom)
    \* last keeper call and its result
    call,
    ret

tokenVars == <<lockStore, tokenAccCoins, tokenModuleCoins>>
pairVars == <<tokenPairStore, userTokenPairStore, tokenPairNumber,
              cacheTokenPairMap, cacheNewTokenPairs>>
withdrawVars == <<withdrawInfoStore, withdrawTimeKeys>>
bankVars == <<dexAccCoins, dexModuleCoins>>
ctxVars == <<blockTime, withdrawPeriod, defaultTokenPairDeposit>>
dexVars == <<pairVars, withdrawVars, bankVars, ctxVars>>
vars == <<tokenVars, dexVars, call, ret>>

\* an absent store value, a nil pointer or slice
Nil == [nil |-> TRUE]
\* a nil error
NoError == "nil"
\* a nil byte slice: no end of a range
NilBytes == <<>>

\* account addresses (one address byte each)
Addrs == {1, 2}
\* coin denominations, ordered as strings.Compare orders them
Denoms == {1, 2}

\* tracked Lock calls are explored while no locked amount exceeds this
MaxLocked == 2

LockCoinsTypeQuantity == "LockCoinsTypeQuantity"
LockCoinsTypeFee == "LockCoinsTypeFee"
LockCoinsTypes == {LockCoinsTypeQuantity, LockCoinsTypeFee}

----------------------------------------------------------------------------
(* sdk.DecCoins: a list of (denom, amount), as the keeper uses it *)

DecCoin(d, n) == [denom |-> d, amount |-> n]

\* store.Get finds no record under the lock key of an address (a value no
\* record has, an empty record included)
NoLockCoins == <<DecCoin(0, 0)>>

AmountOf(coins, d) ==
    IF \E i \in 1..Len(coins) : coins[i].denom = d
    THEN (coins[CHOOSE i \in 1..Len(coins) : coins[i].denom = d]).amount
    ELSE 0

RECURSIVE removeZeroDecCoins(_)
removeZeroDecCoins(coins) ==
    IF coins = <<>> THEN <<>>
    ELSE IF Head(coins).amount = 0 THEN removeZeroDecCoins(Tail(coins))
    ELSE <<Head(coins)>> \o removeZeroDecCoins(Tail(coins))

\* DecCoins.Add: merge of two denom-sorted lists, zero sums dropped
RECURSIVE safeAdd(_, _)
safeAdd(coins, coinsB) ==
    IF coins = <<>> THEN removeZeroDecCoins(coinsB)
    ELSE IF coinsB = <<>> THEN removeZeroDecCoins(coins)
    ELSE LET coinA == Head(coins)
             coinB == Head(coinsB)
         IN  IF coinA.denom < coinB.denom
             THEN (IF coinA.amount = 0 THEN <<>> ELSE <<coinA>>)
                      \o safeAdd(Tail(coins), coinsB)
             ELSE IF coinA.denom = coinB.denom
             THEN LET res == coinA.amount + coinB.amount
                  IN  (IF res = 0 THEN <<>> ELSE <<DecCoin(coinA.denom, res)>>)
                          \o safeAdd(Tail(coins), Tail(coinsB))
             ELSE (IF coinB.amount = 0 THEN <<>> ELSE <<coinB>>)
                      \o safeAdd(coins, Tail(coinsB))

negative(coins) == [i \in 1..Len(coins) |-> DecCoin(coins[i].denom, 0 - coins[i].amount)]

IsAnyNegative(coins) == \E i \in 1..Len(coins) : coins[i].amount < 0

\* DecCoins.SafeSub: (coins - coinsB, some amount negative)
SafeSub(coins, coinsB) ==
    LET diff == safeAdd(coins, negative(coinsB))
    IN  [coins |-> diff, isNegative |-> IsAnyNegative(diff)]

\* sort.Sort(DecCoins): ascending denom (insertion sort)
RECURSIVE insertCoin(_, _)
insertCoin(c, sorted) ==
    IF sorted = <<>> THEN <<c>>
    ELSE IF c.denom < Head(sorted).denom THEN <<c>> \o sorted
    ELSE <<Head(sorted)>> \o insertCoin(c, Tail(sorted))

RECURSIVE sortCoins(_)
sortCoins(coins) ==
    IF coins = <<>> THEN <<>> ELSE insertCoin(Head(coins), sortCoins(Tail(coins)))

\* DecCoins.IsValid: strictly ascending denoms, positive amounts
IsValidCoins(coins) ==
    /\ \A i \in 1..Len(coins) : coins[i].amount > 0
    /\ \A i \in 1..Len(coins) : \A j \in 1..Len(coins) :
           i < j => coins[i].denom < coins[j].denom

\* the coins arguments the callers pass: valid, non-empty
CoinsInputs ==
    { <<DecCoin(d, 1)>> : d \in Denoms } \cup { <<DecCoin(1, 1), DecCoin(2, 1)>> }

----------------------------------------------------------------------------
(* x/token keeper *)

\* a transfer that credits the receiver and leaves the sender's coins alone
SendCoinsNoDebit(fromCoins, toCoins, amt) ==
    LET sub == SafeSub(fromCoins, amt)
    IN  IF ~IsValidCoins(amt) \/ sub.isNegative
        THEN [err |-> "ErrInsufficientCoins", from |-> fromCoins, to |-> toCoins]
        ELSE [err |-> NoError, from |-> fromCoins, to |-> safeAdd(toCoins, amt)]

\* supplyKeeper: subtract from the sender, fail without effect when short
SendCoins(fromCoins, toCoins, amt) ==
    LET sub == SafeSub(fromCoins, amt)
    IN  IF ~IsValidCoins(amt) \/ sub.isNegative
        THEN [err |-> "ErrInsufficientCoins", from |-> fromCoins, to |-> toCoins]
        ELSE [err |-> NoError, from |-> sub.coins, to |-> safeAdd(toCoins, amt)]

GetLockCoins(addr) == IF lockStore[addr] = NoLockCoins THEN <<>> ELSE lockStore[addr]

updateLockCoinsNoOverdraftCheck(store, addr, coins, isAdd) ==
    LET coinsBytes == store[addr]
        newCoins == IF isAdd
                    THEN (IF coinsBytes = NoLockCoins THEN coins ELSE safeAdd(coinsBytes, coins))
                    ELSE (IF coinsBytes = NoLockCoins THEN negative(coins)
                          ELSE SafeSub(coinsBytes, coins).coins)
        sorted == sortCoins(newCoins)
    IN  [err |-> NoError,
         store |-> [store EXCEPT ![addr] = IF Len(sorted) > 0 THEN sorted ELSE NoLockCoins]]

updateLockCoinsReplace(store, addr, coins, isAdd) ==
    IF isAdd
    THEN [err |-> NoError, store |-> [store EXCEPT ![addr] = sortCoins(coins)]]
    ELSE updateLockCoinsNoOverdraftCheck(store, addr, coins, isAdd)

updateLockCoinsKeepEmpty(store, addr, coins, isAdd) ==
    LET coinsBytes == store[addr]
        set(newCoins) == [err |-> NoError,
                          store |-> [store EXCEPT ![addr] = sortCoins(newCoins)]]
    IN  IF isAdd
        THEN IF coinsBytes = NoLockCoins
             THEN set(coins)
             ELSE set(safeAdd(coinsBytes, coins))
        ELSE IF coinsBytes = NoLockCoins
             THEN [err |-> "failed to unlock", store |-> store]
             ELSE LET sub == SafeSub(coinsBytes, coins)
                  IN  IF sub.isNegative
                      THEN [err |-> "failed to lock", store |-> store]
                      ELSE set(sub.coins)

\* updateLockCoins: result error and the lock store it leaves
updateLockCoins(store, addr, coins, isAdd) ==
    LET coinsBytes == store[addr]
        set(newCoins) ==
            LET sorted == sortCoins(newCoins)
            IN  [err |-> NoError,
                 store |-> [store EXCEPT ![addr] =
                               IF Len(sorted) > 0 THEN sorted ELSE NoLockCoins]]
    IN  IF isAdd
        THEN IF coinsBytes = NoLockCoins
             THEN set(coins)
             ELSE set(safeAdd(coinsBytes, coins))
        ELSE IF coinsBytes = NoLockCoins
             THEN [err |-> "failed to unlock", store |-> store]
             ELSE LET sub == SafeSub(coinsBytes, coins)
                  IN  IF sub.isNegative
                      THEN [err |-> "failed to lock", store |-> store]
                      ELSE set(sub.coins)

LockCoins(addr, coins, lockCoinsType) ==
    LET send == SendCoins(tokenAccCoins[addr], tokenModuleCoins, coins)
        upd == updateLockCoins(lockStore, addr, coins, TRUE)
    IN  /\ UNCHANGED dexVars
        /\ IF lockCoinsType = LockCoinsTypeQuantity
           THEN \A d \in Denoms :
                    AmountOf(GetLockCoins(addr), d) + AmountOf(coins, d) <= MaxLocked
           ELSE TRUE
        /\ call' = [op |-> "LockCoins", addr |-> addr, coins |-> coins,
                    lockCoinsType |-> lockCoinsType]
        /\ IF send.err # NoError
           THEN /\ ret' = send.err
                /\ UNCHANGED tokenVars
           ELSE /\ tokenAccCoins' = [tokenAccCoins EXCEPT ![addr] = send.from]
                /\ tokenModuleCoins' = send.to
                /\ IF lockCoinsType = LockCoinsTypeQuantity
                   THEN /\ lockStore' = upd.store
                        /\ ret' = upd.err
                   ELSE /\ ret' = NoError
                        /\ UNCHANGED lockStore

UnlockCoins(addr, coins, lockCoinsType) ==
    LET upd == IF lockCoinsType = LockCoinsTypeQuantity
               THEN updateLockCoins(lockStore, addr, coins, FALSE)
               ELSE [err |-> NoError, store |-> lockStore]
        send == SendCoins(tokenModuleCoins, tokenAccCoins[addr], coins)
    IN  /\ UNCHANGED dexVars
        /\ call' = [op |-> "UnlockCoins", addr |-> addr, coins |-> coins,
                    lockCoinsType |-> lockCoinsType]
        /\ IF upd.err # NoError
           THEN /\ ret' = upd.err
                /\ UNCHANGED tokenVars
           ELSE /\ lockStore' = upd.store
                /\ IF send.err # NoError
                   THEN /\ ret' = send.err
                        /\ UNCHANGED <<tokenAccCoins, tokenModuleCoins>>
                   ELSE /\ ret' = NoError
                        /\ tokenModuleCoins' = send.from
                        /\ tokenAccCoins' = [tokenAccCoins EXCEPT ![addr] = send.to]

\* DecCoins.IsZero: no coin with a non-zero amount
IsZeroCoins(coins) == \A i \in 1..Len(coins) : coins[i].amount = 0

\* the coins BalanceAccount is called with: also none, and a zero amount
SettleOutputs == CoinsInputs \cup { <<>>, <<DecCoin(1, 0)>> }
SettleInputs == { <<DecCoin(d, 1)>> : d \in Denoms } \cup { <<>>, <<DecCoin(1, 0)>> }

settleDebitAlways(store, addr, outputCoins) ==
    updateLockCoins(store, addr, outputCoins, FALSE)

\* the debit of BalanceAccount: result error and the lock store it leaves
settleDebit(store, addr, outputCoins) ==
    IF ~IsZeroCoins(outputCoins)
    THEN updateLockCoins(store, addr, outputCoins, FALSE)
    ELSE [err |-> NoError, store |-> store]

BalanceAccountRollsBack(addr, outputCoins, inputCoins) ==
    LET upd == settleDebit(lockStore, addr, outputCoins)
        send == SendCoins(tokenModuleCoins, tokenAccCoins[addr], inputCoins)
    IN  /\ UNCHANGED dexVars
        /\ call' = [op |-> "BalanceAccount", addr |-> addr,
                    outputCoins |-> outputCoins, inputCoins |-> inputCoins]
        /\ IF upd.err # NoError
           THEN /\ ret' = upd.err
                /\ UNCHANGED tokenVars
           ELSE IF IsZeroCoins(inputCoins)
           THEN /\ ret' = NoError
                /\ lockStore' = upd.store
                /\ UNCHANGED <<tokenAccCoins, tokenModuleCoins>>
           ELSE IF send.err # NoError
           THEN /\ ret' = send.err
                /\ UNCHANGED tokenVars
           ELSE /\ ret' = NoError
                /\ lockStore' = upd.store
                /\ tokenModuleCoins' = send.from
                /\ tokenAccCoins' = [tokenAccCoins EXCEPT ![addr] = send.to]

BalanceAccount(addr, outputCoins, inputCoins) ==
    LET upd == settleDebit(lockStore, addr, outputCoins)
        send == SendCoins(tokenModuleCoins, tokenAccCoins[addr], inputCoins)
    IN  /\ UNCHANGED dexVars
        /\ call' = [op |-> "BalanceAccount", addr |-> addr,
                    outputCoins |-> outputCoins, inputCoins |-> inputCoins]
        /\ IF upd.err # NoError
           THEN /\ ret' = upd.err
                /\ UNCHANGED tokenVars
           ELSE /\ lockStore' = upd.store
                /\ IF IsZeroCoins(inputCoins)
                   THEN /\ ret' = NoError
                        /\ UNCHANGED <<tokenAccCoins, tokenModuleCoins>>
                   ELSE IF send.err # NoError
                   THEN /\ ret' = send.err
                        /\ UNCHANGED <<tokenAccCoins, tokenModuleCoins>>
                   ELSE /\ ret' = NoError
                        /\ tokenModuleCoins' = send.from
                        /\ tokenAccCoins' = [tokenAccCoins EXCEPT ![addr] = send.to]

----------------------------------------------------------------------------
(* x/dex keeper: token pairs and the cache *)

Bases == {"btc", "eth"}
\* the base symbols of every product the chain can list
ListableBases == Bases \cup {"ltc"}
Quotes == {"usdt"}

\* keyPair := tokenPair.BaseAssetSymbol + "_" + tokenPair.QuoteAssetSymbol
keyPair(tokenPair) == <<tokenPair.BaseAssetSymbol, tokenPair.QuoteAssetSymbol>>

Products == { <<b, q>> : b \in ListableBases, q \in Quotes }
RegistryProducts == { <<b, q>> : b \in Bases, q \in Quotes }

DefaultBondDenom == "okt"
OtherDenom == "btc"

TokenPair(base, quote, owner, deposits, id) ==
    [BaseAssetSymbol |-> base, QuoteAssetSymbol |-> quote, Owner |-> owner,
     Deposits |-> deposits, ID |-> id]

\* cache.AddTokenPair: the pair enters the full map under its own key
AddTokenPair(cacheMap, tokenPair) ==
    [cacheMap EXCEPT ![keyPair(tokenPair)] = tokenPair]

\* cache.AddNewTokenPair: the pair is appended to the pairs new in this block
AddNewTokenPair(newPairs, tokenPair) == Append(newPairs, keyPair(tokenPair))

\* NewCache: no pair cached, none new
NewCache == [tokenPairMap |-> [p \in Products |-> Nil], newTokenPairs |-> <<>>]

\* cache.Reset: the cached pairs and the new-pair list are cleared
CacheReset == [tokenPairMap |-> [p \in Products |-> Nil], newTokenPairs |-> <<>>]

TokenPairCount(cacheMap) == Cardinality({p \in Products : cacheMap[p] # Nil})

GetAllTokenPairs(cacheMap) == {cacheMap[p] : p \in {q \in Products : cacheMap[q] # Nil}}

\* cache.PrepareTokenPairs: the full map is rebuilt from the given pairs
PrepareTokenPairs(tokenPairs) ==
    [p \in Products |->
        IF \E tp \in tokenPairs : keyPair(tp) = p
        THEN CHOOSE tp \in tokenPairs : keyPair(tp) = p
        ELSE Nil]

GetTokenPairsFromStore(store) == {store[p] : p \in {q \in Products : store[q] # Nil}}

GetTokenPairsCacheOnly(cacheMap, store) == GetAllTokenPairs(cacheMap)

GetTokenPairs(cacheMap, store) ==
    IF Cardinality(GetAllTokenPairs(cacheMap)) > 0
    THEN GetAllTokenPairs(cacheMap)
    ELSE GetTokenPairsFromStore(store)

GetTokenPairNum(number) == number

\* GetTokenPair: the pair (or Nil) and the cache map the lookup leaves
GetTokenPair(cacheMap, store, product) ==
    IF cacheMap[product] # Nil
    THEN [tokenPair |-> cacheMap[product], cache |-> cacheMap]
    ELSE IF store[product] = Nil
    THEN [tokenPair |-> Nil, cache |-> cacheMap]
    ELSE [tokenPair |-> store[product],
          cache |-> AddTokenPair(cacheMap, store[product])]

GetTokenPairFromStore(store, product) == store[product]

\* the ID a pair is saved with
SaveTokenPairIDReissued(tokenPair, number) == GetTokenPairNum(number) + 1

SaveTokenPairID(tokenPair, number) ==
    IF tokenPair.ID = 0 THEN GetTokenPairNum(number) + 1 ELSE tokenPair.ID

SaveTokenPair(tokenPair) ==
    LET saved == [tokenPair EXCEPT !.ID = SaveTokenPairID(tokenPair, tokenPairNumber)]
    IN  /\ call' = [op |-> "SaveTokenPair", tokenPair |-> tokenPair]
        /\ ret' = NoError
        /\ tokenPairNumber' = saved.ID
        /\ tokenPairStore' = [tokenPairStore EXCEPT ![keyPair(saved)] = saved]
        /\ userTokenPairStore' = userTokenPairStore \cup {<<saved.Owner, keyPair(saved)>>}
        /\ cacheNewTokenPairs' = AddNewTokenPair(cacheNewTokenPairs, saved)
        /\ cacheTokenPairMap' = AddTokenPair(cacheTokenPairMap, saved)
        /\ UNCHANGED <<tokenVars, withdrawVars, bankVars, ctxVars>>

\* a GetTokenPair call of its own (a query, or another module's lookup)
GetTokenPairCall(product) ==
    LET got == GetTokenPair(cacheTokenPairMap, tokenPairStore, product)
    IN  /\ call' = [op |-> "GetTokenPair", product |-> product]
        /\ ret' = NoError
        /\ cacheTokenPairMap' = got.cache
        /\ UNCHANGED <<tokenVars, tokenPairStore, userTokenPairStore, tokenPairNumber,
                       cacheNewTokenPairs, withdrawVars, bankVars, ctxVars>>

\* NewKeeper: a keeper with a cache of its own is built over the stores as
\* they are (at genesis, and again whenever the node starts)
NewKeeper ==
    /\ call' = [op |-> "NewKeeper"]
    /\ ret' = NoError
    /\ cacheTokenPairMap' = NewCache.tokenPairMap
    /\ cacheNewTokenPairs' = NewCache.newTokenPairs
    /\ UNCHANGED <<tokenVars, tokenPairStore, userTokenPairStore, tokenPairNumber,
                   withdrawVars, bankVars, ctxVars>>

ResetCache ==
    /\ call' = [op |-> "ResetCache"]
    /\ ret' = NoError
    /\ cacheNewTokenPairs' = CacheReset.newTokenPairs
    /\ cacheTokenPairMap' =
           IF TokenPairCount(CacheReset.tokenPairMap) <= 0
           THEN PrepareTokenPairs(GetTokenPairs(CacheReset.tokenPairMap, tokenPairStore))
           ELSE CacheReset.tokenPairMap
    /\ UNCHANGED <<tokenVars, tokenPairStore, userTokenPairStore, tokenPairNumber,
                   withdrawVars, bankVars, ctxVars>>

\* cache.DeleteTokenPairByName: the pair leaves the full map
CacheDeleteTokenPairByName(cacheMap, product) == [cacheMap EXCEPT ![product] = Nil]

DeleteUserTokenPairKept(index, owner, pair) == index

DeleteUserTokenPairOfOwner(index, owner, pair) == {e \in index : e[1] # owner}

\* DeleteUserTokenPair: the owner index it leaves
DeleteUserTokenPair(index, owner, pair) == index \ {<<owner, pair>>}

\* GetUserTokenPairs: the products the owner index lists for `owner'
GetUserTokenPairs(index, owner) == {p \in Products : <<owner, p>> \in index}

DeleteTokenPairByName(owner, product) ==
    /\ call' = [op |-> "DeleteTokenPairByName", addr |-> owner, product |-> product]
    /\ ret' = NoError
    /\ tokenPairStore' = [tokenPairStore EXCEPT ![product] = Nil]
    /\ cacheTokenPairMap' = CacheDeleteTokenPairByName(cacheTokenPairMap, product)
    /\ userTokenPairStore' = DeleteUserTokenPair(userTokenPairStore, owner, product)
    /\ UNCHANGED <<tokenVars, tokenPairNumber, cacheNewTokenPairs,
                   withdrawVars, bankVars, ctxVars>>

\* the bytes of a symbol and of the product name base + "_" + quote
SymbolBytes(symbol) ==
    CASE symbol = "btc" -> <<98, 116, 99>>
      [] symbol = "eth" -> <<101, 116, 104>>
      [] symbol = "ltc" -> <<108, 116, 99>>
      [] symbol = "usdt" -> <<117, 115, 100, 116>>

ProductBytes(tokenPair) ==
    SymbolBytes(tokenPair.BaseAssetSymbol) \o <<95>> \o SymbolBytes(tokenPair.QuoteAssetSymbol)

\* TokenPairs.Less: byte-wise order of the product names
TokenPairsLess(a, b) ==
    LET x == ProductBytes(a)
        y == ProductBytes(b)
        n == IF Len(x) < Len(y) THEN Len(x) ELSE Len(y)
    IN  IF \E i \in 1..n : x[i] # y[i]
        THEN LET i == CHOOSE i \in 1..n : x[i] # y[i] /\ \A j \in 1..(i - 1) : x[j] = y[j]
             IN  x[i] < y[i]
        ELSE Len(x) < Len(y)

\* sort.Sort(result)
RECURSIVE SortTokenPairs(_)
SortTokenPairs(tokenPairs) ==
    IF tokenPairs = {} THEN <<>>
    ELSE LET first == CHOOSE tp \in tokenPairs :
                          \A o \in tokenPairs \ {tp} : ~TokenPairsLess(o, tp)
         IN  <<first>> \o SortTokenPairs(tokenPairs \ {first})

GetTokenPairsOrderedUnsorted(cacheMap, store) ==
    LET tokenPairs == GetTokenPairs(cacheMap, store)
        n == Len(SortTokenPairs(tokenPairs))
    IN  [i \in 1..n |-> SortTokenPairs(tokenPairs)[n + 1 - i]]

\* GetTokenPairsOrdered: the pairs GetTokenPairs returns, sorted
GetTokenPairsOrdered(cacheMap, store) == SortTokenPairs(GetTokenPairs(cacheMap, store))

GetTokenPairsOrderedCall ==
    /\ call' = [op |-> "GetTokenPairsOrdered",
                result |-> GetTokenPairsOrdered(cacheTokenPairMap, tokenPairStore)]
    /\ ret' = NoError
    /\ UNCHANGED <<tokenVars, dexVars>>

\* UpdateTokenPair: the store and the cache map it leaves
UpdateTokenPairStoreOnly(store, cacheMap, product, tokenPair) ==
    [store |-> [store EXCEPT ![product] = tokenPair], cache |-> cacheMap]

UpdateTokenPair(store, cacheMap, product, tokenPair) ==
    [store |-> [store EXCEPT ![product] = tokenPair],
     cache |-> AddTokenPair(cacheMap, tokenPair)]

\* the lookups of SortProducts: the pairs found, in the order of the keys,
\* and the cache map the lookups leave
RECURSIVE LookupProducts(_, _, _)
LookupProducts(cacheMap, store, products) ==
    IF products = <<>> THEN [tokenPairs |-> <<>>, cache |-> cacheMap]
    ELSE LET got == GetTokenPair(cacheMap, store, Head(products))
             rest == LookupProducts(got.cache, store, Tail(products))
         IN  [tokenPairs |-> IF got.tokenPair = Nil THEN rest.tokenPairs
                             ELSE <<got.tokenPair>> \o rest.tokenPairs,
              cache |-> rest.cache]

\* sort.Sort(tokenPairs) on a slice that may hold a pair more than once
RECURSIVE InsertTokenPair(_, _)
InsertTokenPair(sorted, tokenPair) ==
    IF sorted = <<>> THEN <<tokenPair>>
    ELSE IF TokenPairsLess(tokenPair, Head(sorted)) THEN <<tokenPair>> \o sorted
    ELSE <<Head(sorted)>> \o InsertTokenPair(Tail(sorted), tokenPair)

RECURSIVE SortTokenPairSlice(_)
SortTokenPairSlice(tokenPairs) ==
    IF tokenPairs = <<>> THEN <<>>
    ELSE InsertTokenPair(SortTokenPairSlice(Tail(tokenPairs)), Head(tokenPairs))

SortProductsNoSort(cacheMap, store, products) ==
    LET looked == LookupProducts(cacheMap, store, products)
    IN  [products |-> [i \in 1..Len(products) |->
                          IF i <= Len(looked.tokenPairs) THEN keyPair(looked.tokenPairs[i])
                          ELSE products[i]],
         cache |-> looked.cache]

\* SortProducts: the slice as it is left, and the cache map the lookups leave
SortProducts(cacheMap, store, products) ==
    LET looked == LookupProducts(cacheMap, store, products)
        tokenPairs == SortTokenPairSlice(looked.tokenPairs)
    IN  [products |-> [i \in 1..Len(products) |->
                          IF i <= Len(tokenPairs) THEN keyPair(tokenPairs[i])
                          ELSE products[i]],
         cache |-> looked.cache]

SortProductsCall(products) ==
    LET sorted == SortProducts(cacheTokenPairMap, tokenPairStore, products)
    IN  /\ call' = [op |-> "SortProducts", products |-> products,
                    result |-> sorted.products]
        /\ ret' = NoError
        /\ cacheTokenPairMap' = sorted.cache
        /\ UNCHANGED <<tokenVars, tokenPairStore, userTokenPairStore, tokenPairNumber,
                       cacheNewTokenPairs, withdrawVars, bankVars, ctxVars>>

\* an UpdateTokenPair call of its own (the delisting handler's, or a
\* module's that rewrites a pair it has looked up)
UpdateTokenPairCall(product, tokenPair) ==
    LET upd == UpdateTokenPair(tokenPairStore, cacheTokenPairMap, product, tokenPair)
    IN  /\ call' = [op |-> "UpdateTokenPair", product |-> product, tokenPair |-> tokenPair]
        /\ ret' = NoError
        /\ tokenPairStore' = upd.store
        /\ cacheTokenPairMap' = upd.cache
        /\ UNCHANGED <<tokenVars, userTokenPairStore, tokenPairNumber,
                       cacheNewTokenPairs, withdrawVars, bankVars, ctxVars>>

UpdateUserTokenPairKeepOld(index, product, owner, to) ==
    index \cup {<<to, product>>}

\* UpdateUserTokenPair: the owner index it leaves
UpdateUserTokenPair(index, product, owner, to) ==
    (index \ {<<owner, product>>}) \cup {<<to, product>>}

----------------------------------------------------------------------------
(* x/dex keeper: store keys of the withdraw queue *)

\* largest value of one key byte
ByteMax == 2

PrefixWithdrawAddressKey == <<1>>
PrefixWithdrawTimeKey == <<2>>

\* fixed-width big-endian bytes of a time
FormatTimeBytes(t) == << t \div (ByteMax + 1), t % (ByteMax + 1) >>

GetWithdrawAddressKey(addr) == PrefixWithdrawAddressKey \o <<addr>>
GetWithdrawTimeKey(t) == PrefixWithdrawTimeKey \o FormatTimeBytes(t)
GetWithdrawTimeAddressKey(t, addr) == GetWithdrawTimeKey(t) \o <<addr>>

SplitWithdrawTimeKey(key) ==
    [time |-> key[2] * (ByteMax + 1) + key[3], addr |-> key[4]]

\* sdk.PrefixEndBytes: the smallest key above every key with this prefix
RECURSIVE PrefixEndBytes(_)
PrefixEndBytes(prefix) ==
    IF Len(prefix) = 0 THEN NilBytes
    ELSE IF prefix[Len(prefix)] # ByteMax
    THEN [prefix EXCEPT ![Len(prefix)] = @ + 1]
    ELSE PrefixEndBytes(SubSeq(prefix, 1, Len(prefix) - 1))

\* bytes.Compare(a, b) < 0
RECURSIVE BytesLess(_, _)
BytesLess(a, b) ==
    IF b = <<>> THEN FALSE
    ELSE IF a = <<>> THEN TRUE
    ELSE IF Head(a) # Head(b) THEN Head(a) < Head(b)
    ELSE BytesLess(Tail(a), Tail(b))

RECURSIVE SortedKeys(_)
SortedKeys(keys) ==
    IF keys = {} THEN <<>>
    ELSE LET first == CHOOSE k \in keys : \A o \in keys \ {k} : BytesLess(k, o)
         IN  <<first>> \o SortedKeys(keys \ {first})

\* store.Iterator(start, end): the keys in [start, end), ascending
Iterator(keys, start, end) ==
    SortedKeys({k \in keys : /\ ~BytesLess(k, start)
                             /\ (end = NilBytes \/ BytesLess(k, end))})

\* every key of the storeKey store
StoreKeys(infos, timeKeys) ==
    timeKeys \cup {GetWithdrawAddressKey(a) : a \in {b \in Addrs : infos[b] # Nil}}

withdrawTimeKeyIteratorExclusive(infos, timeKeys, endTime) ==
    Iterator(StoreKeys(infos, timeKeys), PrefixWithdrawTimeKey, GetWithdrawTimeKey(endTime))

withdrawTimeKeyIterator(infos, timeKeys, endTime) ==
    Iterator(StoreKeys(infos, timeKeys), PrefixWithdrawTimeKey,
             PrefixEndBytes(GetWithdrawTimeKey(endTime)))

\* IterateWithdrawAddress: the keys handed to fn, in order
IterateWithdrawAddress(currentTime) ==
    withdrawTimeKeyIterator(withdrawInfoStore, withdrawTimeKeys, currentTime)

----------------------------------------------------------------------------
(* x/dex keeper: Deposit, Withdraw, TransferOwnership, CompleteWithdraw *)

\* block times run from 0 to MaxTime
MaxTime == 1
\* Withdraw is explored while no pending amount exceeds this
MaxPending == 2

ErrNonExistProduct == "ErrUnknownRequest: non-exist product"
ErrNotOwner == "ErrInvalidAddress: not the owner of product"
ErrOnlyBondDenom == "ErrUnknownRequest: deposits only support bond denom"
ErrInsufficientDepositCoins == "ErrInsufficientCoins: insufficient deposit coins"
ErrDepositsLessThanWithdraw == "ErrInsufficientCoins: deposits is less than withdraw"
ErrUnauthorizedOwner == "ErrUnauthorized: not the owner of product"
ErrInternalWithdraw == "ErrInternal: withdraw deposits error"
ErrNoWithdrawing == "ErrInvalidAddress: there is no withdrawing for address"
ErrWithdrawInsufficient == "ErrInsufficientCoins: withdraw error"

\* the part of the state Withdraw reads and writes
DexState ==
    [cache |-> cacheTokenPairMap, store |-> tokenPairStore,
     infos |-> withdrawInfoStore, timeKeys |-> withdrawTimeKeys]

\* the checks Deposit and Withdraw start with, in the code's order
checkOwnerDenomSwapped(tokenPair, addr, amount) ==
    IF tokenPair = Nil THEN ErrNonExistProduct
    ELSE IF amount.denom # DefaultBondDenom THEN ErrOnlyBondDenom
    ELSE IF tokenPair.Owner # addr THEN ErrNotOwner
    ELSE NoError

checkOwnerDenom(tokenPair, addr, amount) ==
    IF tokenPair = Nil THEN ErrNonExistProduct
    ELSE IF tokenPair.Owner # addr THEN ErrNotOwner
    ELSE IF amount.denom # DefaultBondDenom THEN ErrOnlyBondDenom
    ELSE NoError

\* DecCoin.IsLT
IsLTOrEqual(coin, other) == coin.amount <= other.amount

IsLT(coin, other) == coin.amount < other.amount

\* the WithdrawInfo and time keys Withdraw leaves for `to'
mergeWithdrawInfoKeepTime(infos, timeKeys, to, amount, completeTime) ==
    LET old == infos[to]
        withdrawInfo ==
            IF old = Nil
            THEN [Owner |-> to, Deposits |-> amount, CompleteTime |-> completeTime]
            ELSE [old EXCEPT !.Deposits = DecCoin(old.Deposits.denom,
                                                  old.Deposits.amount + amount.amount)]
    IN  [infos |-> [infos EXCEPT ![withdrawInfo.Owner] = withdrawInfo],
         timeKeys |-> timeKeys \cup {GetWithdrawTimeAddressKey(withdrawInfo.CompleteTime, to)}]

mergeWithdrawInfoLaterTime(infos, timeKeys, to, amount, completeTime) ==
    LET old == infos[to]
        withdrawInfo ==
            IF old = Nil
            THEN [Owner |-> to, Deposits |-> amount, CompleteTime |-> completeTime]
            ELSE [old EXCEPT !.Deposits = DecCoin(old.Deposits.denom,
                                                  old.Deposits.amount + amount.amount),
                             !.CompleteTime = old.CompleteTime + completeTime]
        deleted ==
            IF old = Nil THEN timeKeys
            ELSE timeKeys \ {GetWithdrawTimeAddressKey(old.CompleteTime, to)}
    IN  [infos |-> [infos EXCEPT ![withdrawInfo.Owner] = withdrawInfo],
         timeKeys |-> deleted \cup {GetWithdrawTimeAddressKey(withdrawInfo.CompleteTime, to)}]

mergeWithdrawInfoReplaceAmount(infos, timeKeys, to, amount, completeTime) ==
    LET old == infos[to]
        withdrawInfo == [Owner |-> to, Deposits |-> amount, CompleteTime |-> completeTime]
        deleted ==
            IF old = Nil THEN timeKeys
            ELSE timeKeys \ {GetWithdrawTimeAddressKey(old.CompleteTime, to)}
    IN  [infos |-> [infos EXCEPT ![withdrawInfo.Owner] = withdrawInfo],
         timeKeys |-> deleted \cup {GetWithdrawTimeAddressKey(completeTime, to)}]

mergeWithdrawInfoKeepOldKey(infos, timeKeys, to, amount, completeTime) ==
    LET old == infos[to]
        withdrawInfo ==
            IF old = Nil
            THEN [Owner |-> to, Deposits |-> amount, CompleteTime |-> completeTime]
            ELSE [old EXCEPT !.Deposits = DecCoin(old.Deposits.denom,
                                                  old.Deposits.amount + amount.amount),
                             !.CompleteTime = completeTime]
    IN  [infos |-> [infos EXCEPT ![withdrawInfo.Owner] = withdrawInfo],
         timeKeys |-> timeKeys \cup {GetWithdrawTimeAddressKey(completeTime, to)}]

mergeWithdrawInfo(infos, timeKeys, to, amount, completeTime) ==
    LET old == infos[to]
        withdrawInfo ==
            IF old = Nil
            THEN [Owner |-> to, Deposits |-> amount, CompleteTime |-> completeTime]
            ELSE [old EXCEPT !.Deposits = DecCoin(old.Deposits.denom,
                                                  old.Deposits.amount + amount.amount),
                             !.CompleteTime = completeTime]
        deleted ==
            IF old = Nil THEN timeKeys
            ELSE timeKeys \ {GetWithdrawTimeAddressKey(old.CompleteTime, to)}
    IN  [infos |-> [infos EXCEPT ![withdrawInfo.Owner] = withdrawInfo],
         timeKeys |-> deleted \cup {GetWithdrawTimeAddressKey(completeTime, to)}]

\* Withdraw: the error it returns and the state it leaves
withdraw(st, product, to, amount) ==
    LET got == GetTokenPair(st.cache, st.store, product)
        tokenPair == got.tokenPair
        looked == [st EXCEPT !.cache = got.cache]
        err == checkOwnerDenom(tokenPair, to, amount)
    IN  IF err # NoError THEN [err |-> err, st |-> looked]
        ELSE IF IsLT(tokenPair.Deposits, amount)
        THEN [err |-> ErrDepositsLessThanWithdraw, st |-> looked]
        ELSE LET completeTime == blockTime + withdrawPeriod
                 merged == mergeWithdrawInfo(st.infos, st.timeKeys, to, amount, completeTime)
                 newPair == [tokenPair EXCEPT !.Deposits =
                                DecCoin(tokenPair.Deposits.denom,
                                        tokenPair.Deposits.amount - amount.amount)]
                 upd == UpdateTokenPair(st.store, got.cache, product, newPair)
             IN  [err |-> NoError,
                  st |-> [cache |-> upd.cache, store |-> upd.store,
                          infos |-> merged.infos, timeKeys |-> merged.timeKeys]]

PendingWithin(infos) ==
    \A a \in Addrs :
        IF infos[a] = Nil THEN TRUE ELSE infos[a].Deposits.amount <= MaxPending

Deposit(product, from, amount) ==
    LET got == GetTokenPair(cacheTokenPairMap, tokenPairStore, product)
        tokenPair == got.tokenPair
        err == checkOwnerDenom(tokenPair, from, amount)
    IN  /\ call' = [op |-> "Deposit", product |-> product, addr |-> from,
                    amount |-> amount]
        /\ UNCHANGED <<tokenVars, userTokenPairStore, tokenPairNumber,
                       cacheNewTokenPairs, withdrawVars, ctxVars>>
        /\ IF err # NoError
           THEN /\ ret' = err
                /\ cacheTokenPairMap' = got.cache
                /\ UNCHANGED <<tokenPairStore, bankVars>>
           ELSE IF dexAccCoins[from] < amount.amount
           THEN /\ ret' = ErrInsufficientDepositCoins
                /\ cacheTokenPairMap' = got.cache
                /\ UNCHANGED <<tokenPairStore, bankVars>>
           ELSE LET newPair == [tokenPair EXCEPT !.Deposits =
                                   DecCoin(tokenPair.Deposits.denom,
                                           tokenPair.Deposits.amount + amount.amount)]
                    upd == UpdateTokenPair(tokenPairStore, got.cache, product, newPair)
                IN  /\ ret' = NoError
                    /\ dexAccCoins' = [dexAccCoins EXCEPT ![from] = @ - amount.amount]
                    /\ dexModuleCoins' = dexModuleCoins + amount.amount
                    /\ tokenPairStore' = upd.store
                    /\ cacheTokenPairMap' = upd.cache

Withdraw(product, to, amount) ==
    LET w == withdraw(DexState, product, to, amount)
    IN  /\ PendingWithin(w.st.infos)
        /\ call' = [op |-> "Withdraw", product |-> product, addr |-> to,
                    amount |-> amount]
        /\ ret' = w.err
        /\ cacheTokenPairMap' = w.st.cache
        /\ tokenPairStore' = w.st.store
        /\ withdrawInfoStore' = w.st.infos
        /\ withdrawTimeKeys' = w.st.timeKeys
        /\ UNCHANGED <<tokenVars, userTokenPairStore, tokenPairNumber,
                       cacheNewTokenPairs, bankVars, ctxVars>>

TransferOwnership(product, from, to) ==
    LET got == GetTokenPair(cacheTokenPairMap, tokenPairStore, product)
        tokenPair == got.tokenPair
        looked == [DexState EXCEPT !.cache = got.cache]
        w == IF tokenPair # Nil /\ tokenPair.Owner = from /\ tokenPair.Deposits.amount > 0
             THEN withdraw(looked, product, from, tokenPair.Deposits)
             ELSE [err |-> NoError, st |-> looked]
        newPair == [tokenPair EXCEPT !.Owner = to,
                                     !.Deposits = DecCoin(DefaultBondDenom,
                                                          defaultTokenPairDeposit)]
        upd == UpdateTokenPair(w.st.store, w.st.cache, product, newPair)
        failed == IF tokenPair = Nil THEN ErrNonExistProduct
                  ELSE IF tokenPair.Owner # from THEN ErrUnauthorizedOwner
                  ELSE IF w.err # NoError THEN ErrInternalWithdraw
                  ELSE NoError
    IN  /\ PendingWithin(w.st.infos)
        /\ call' = [op |-> "TransferOwnership", product |-> product, addr |-> from,
                    to |-> to]
        /\ ret' = failed
        /\ withdrawInfoStore' = w.st.infos
        /\ withdrawTimeKeys' = w.st.timeKeys
        /\ IF failed # NoError
           THEN /\ cacheTokenPairMap' = w.st.cache
                /\ tokenPairStore' = w.st.store
                /\ UNCHANGED userTokenPairStore
           ELSE /\ cacheTokenPairMap' = upd.cache
                /\ tokenPairStore' = upd.store
                /\ userTokenPairStore' =
                       UpdateUserTokenPair(userTokenPairStore, product, from, to)
        /\ UNCHANGED <<tokenVars, tokenPairNumber, cacheNewTokenPairs, bankVars, ctxVars>>

deleteWithdrawInfoKept(infos, addr) == infos

deleteWithdrawInfo(infos, addr) == [infos EXCEPT ![addr] = Nil]

CompleteWithdraw(addr) ==
    LET withdrawInfo == withdrawInfoStore[addr]
    IN  /\ call' = [op |-> "CompleteWithdraw", addr |-> addr]
        /\ UNCHANGED <<tokenVars, pairVars, withdrawTimeKeys, ctxVars>>
        /\ IF withdrawInfo = Nil
           THEN /\ ret' = ErrNoWithdrawing
                /\ UNCHANGED <<withdrawInfoStore, bankVars>>
           ELSE IF dexModuleCoins < withdrawInfo.Deposits.amount
           THEN /\ ret' = ErrWithdrawInsufficient
                /\ UNCHANGED <<withdrawInfoStore, bankVars>>
           ELSE /\ ret' = NoError
                /\ dexModuleCoins' = dexModuleCoins - withdrawInfo.Deposits.amount
                /\ dexAccCoins' = [dexAccCoins EXCEPT ![withdrawInfo.Owner] =
                                      @ + withdrawInfo.Deposits.amount]
                /\ withdrawInfoStore' = deleteWithdrawInfo(withdrawInfoStore, addr)

\* the next block: ctx.BlockHeader().Time moves on
NextBlock ==
    /\ blockTime < MaxTime
    /\ blockTime' = blockTime + 1
    /\ call' = [op |-> "NextBlock"]
    /\ ret' = NoError
    /\ UNCHANGED <<tokenVars, pairVars, withdrawVars, bankVars,
                   withdrawPeriod, defaultTokenPairDeposit>>

----------------------------------------------------------------------------
(* the keepers after construction, and the calls made on them *)

DefaultTokenPairDeposits == {0, 1}

\* the amounts Deposit and Withdraw are called with
AmountInputs == { DecCoin(DefaultBondDenom, 1), DecCoin(OtherDenom, 1) }

\* the product the deposit and withdraw calls are made on
ListedProducts == { <<"btc", "usdt">> }

InitLedger ==
    /\ lockStore = [a \in Addrs |-> NoLockCoins]
    /\ tokenAccCoins = [a \in Addrs |-> IF a = 1 THEN <<DecCoin(1, 2), DecCoin(2, 1)>>
                                             ELSE <<DecCoin(1, 1)>>]
    /\ tokenModuleCoins = <<>>

InitRegistry ==
    /\ tokenPairStore = [p \in Products |-> Nil]
    /\ userTokenPairStore = {}
    /\ tokenPairNumber = 0
    /\ cacheTokenPairMap = NewCache.tokenPairMap
    /\ cacheNewTokenPairs = NewCache.newTokenPairs
    /\ withdrawInfoStore = [a \in Addrs |-> Nil]
    /\ withdrawTimeKeys = {}
    /\ dexAccCoins = [a \in Addrs |-> IF a = 1 THEN 2 ELSE 0]
    /\ dexModuleCoins = 0
    /\ blockTime = 0
    /\ call = [op |-> "NewKeeper"]
    /\ ret = NoError

InitToken ==
    /\ InitLedger
    /\ InitRegistry
    /\ withdrawPeriod = 1
    /\ defaultTokenPairDeposit = 0

NextToken ==
    \/ \E addr \in Addrs, coins \in CoinsInputs, t \in LockCoinsTypes :
           LockCoins(addr, coins, t)
    \/ \E addr \in Addrs, coins \in CoinsInputs, t \in LockCoinsTypes :
           UnlockCoins(addr, coins, t)

SpecToken == InitToken /\ [][NextToken]_vars

\* the ledger as the order module uses it: coins are locked with their
\* quantity tracked, then settled; each account starts with one coin
InitSettle ==
    /\ lockStore = [a \in Addrs |-> NoLockCoins]
    /\ tokenAccCoins = [a \in Addrs |-> <<DecCoin(a, 1)>>]
    /\ tokenModuleCoins = <<>>
    /\ InitRegistry
    /\ withdrawPeriod = 1
    /\ defaultTokenPairDeposit = 0

NextSettle ==
    \/ \E addr \in Addrs, coins \in CoinsInputs :
           LockCoins(addr, coins, LockCoinsTypeQuantity)
    \/ \E addr \in Addrs, outputCoins \in SettleOutputs, inputCoins \in SettleInputs :
           BalanceAccount(addr, outputCoins, inputCoins)

SpecSettle == InitSettle /\ [][NextSettle]_vars

\* the whole ledger: coins are locked and unlocked, tracked or not, and
\* settled, with outputs that hold a zero amount beside a positive one
LedgerOutputs == CoinsInputs \cup { <<>>, <<DecCoin(1, 0), DecCoin(2, 1)>> }
LedgerInputs == { <<>>, <<DecCoin(1, 1)>> }

NextLedger ==
    \/ \E addr \in Addrs, coins \in CoinsInputs, t \in LockCoinsTypes :
           LockCoins(addr, coins, t)
    \/ \E addr \in Addrs, coins \in CoinsInputs, t \in LockCoinsTypes :
           UnlockCoins(addr, coins, t)
    \/ \E addr \in Addrs, outputCoins \in LedgerOutputs, inputCoins \in LedgerInputs :
           BalanceAccount(addr, outputCoins, inputCoins)

SpecLedger == InitSettle /\ [][NextLedger]_vars

\* the ledger under quantity-tracked Lock and Unlock calls only, from no
\* locked coins and no custody; the coins are also none, a zero amount and
\* an amount of two
TrackedInputs == CoinsInputs \cup { <<>>, <<DecCoin(1, 0)>>, <<DecCoin(1, 2)>> }

NextTracked ==
    \/ \E addr \in Addrs, coins \in TrackedInputs :
           LockCoins(addr, coins, LockCoinsTypeQuantity)
    \/ \E addr \in Addrs, coins \in TrackedInputs :
           UnlockCoins(addr, coins, LockCoinsTypeQuantity)

SpecTracked == InitToken /\ [][NextTracked]_vars

Init ==
    /\ InitLedger
    /\ InitRegistry
    /\ withdrawPeriod = 2
    /\ defaultTokenPairDeposit \in DefaultTokenPairDeposits

\* a pair as the listing handler saves it: no ID yet, the default deposit
NewTokenPair(base, quote, owner) ==
    TokenPair(base, quote, owner, DecCoin(DefaultBondDenom, defaultTokenPairDeposit), 0)

Next ==
    \/ \E product \in ListedProducts, owner \in Addrs :
           /\ tokenPairStore[product] = Nil
           /\ SaveTokenPair(NewTokenPair(product[1], product[2], owner))
    \/ \E product \in ListedProducts, from \in Addrs, amount \in AmountInputs :
           Deposit(product, from, amount)
    \/ \E product \in ListedProducts, to \in Addrs, amount \in AmountInputs :
           Withdraw(product, to, amount)
    \/ \E product \in ListedProducts, from \in Addrs, to \in Addrs :
           TransferOwnership(product, from, to)
    \/ \E addr \in Addrs : CompleteWithdraw(addr)
    \/ NextBlock
    \/ NewKeeper

Spec == Init /\ [][Next]_vars

\* the deposits from an empty registry on: pairs are registered with no
\* deposit, whatever the default deposit is
UnfundedTokenPair(base, quote, owner) ==
    TokenPair(base, quote, owner, DecCoin(DefaultBondDenom, 0), 0)

NextCustody ==
    \/ \E product \in ListedProducts, owner \in Addrs :
           /\ tokenPairStore[product] = Nil
           /\ SaveTokenPair(UnfundedTokenPair(product[1], product[2], owner))
    \/ \E product \in ListedProducts, from \in Addrs, amount \in AmountInputs :
           Deposit(product, from, amount)
    \/ \E product \in ListedProducts, to \in Addrs, amount \in AmountInputs :
           Withdraw(product, to, amount)
    \/ \E product \in ListedProducts, from \in Addrs, to \in Addrs :
           TransferOwnership(product, from, to)
    \/ \E addr \in Addrs : CompleteWithdraw(addr)
    \/ NextBlock
    \/ NewKeeper

SpecCustody == Init /\ [][NextCustody]_vars

\* the registry alone: pairs saved with or without an ID, lookups, cache resets
\* largest pair ID
MaxID == 3
\* SaveTokenPair is explored while the cache lists fewer new pairs than this
MaxNewPairs == 2

NextRegistry ==
    \/ \E b \in Bases, q \in Quotes, owner \in Addrs, id \in 0..MaxID :
           /\ Len(cacheNewTokenPairs) < MaxNewPairs
           /\ id = 0 => tokenPairNumber < MaxID
           /\ SaveTokenPair(TokenPair(b, q, owner,
                                      DecCoin(DefaultBondDenom, defaultTokenPairDeposit), id))
    \/ \E product \in RegistryProducts : GetTokenPairCall(product)
    \/ \E owner \in Addrs, product \in RegistryProducts : DeleteTokenPairByName(owner, product)
    \/ ResetCache
    \/ NewKeeper

SpecRegistry == InitToken /\ [][NextRegistry]_vars

\* the listing of products: pairs are listed one after the other in any
\* order, delisted, looked up and enumerated in order, across cache resets and
\* keeper restarts
ListingOwner == CHOOSE a \in Addrs : TRUE

NextOrdered ==
    \/ \E b \in ListableBases, q \in Quotes :
           /\ tokenPairStore[<<b, q>>] = Nil
           /\ tokenPairNumber < MaxID
           /\ SaveTokenPair(NewTokenPair(b, q, ListingOwner))
    \/ \E product \in Products :
           /\ tokenPairStore[product] # Nil
           /\ DeleteTokenPairByName(ListingOwner, product)
    \/ \E product \in Products : GetTokenPairCall(product)
    \/ GetTokenPairsOrderedCall
    \/ ResetCache
    \/ NewKeeper

SpecOrdered == InitToken /\ [][NextOrdered]_vars

\* the sorting of product names: pairs are listed one after the other in
\* any order, and slices of names, of listed and unlisted products, with
\* and without repeats, are sorted, with a cold and with a warm cache
\* longest slice of product names handed to SortProducts
MaxKeys == 3

ProductLists == UNION { [1..n -> Products] : n \in 0..MaxKeys }

NextSort ==
    \/ \E b \in ListableBases, q \in Quotes :
           /\ tokenPairStore[<<b, q>>] = Nil
           /\ SaveTokenPair(NewTokenPair(b, q, ListingOwner))
    \/ \E products \in ProductLists : SortProductsCall(products)
    \/ NewKeeper

SpecSort == InitToken /\ [][NextSort]_vars

\* the registry with its deposits: pairs are saved (anew or over a stored
\* key), looked up, rewritten with any owner, deleted on behalf of any
\* owner, funded, drawn from and handed over to another owner, across cache
\* resets and keeper restarts
UnitDeposit == DecCoin(DefaultBondDenom, 1)

\* the ID a product is listed with in the genesis state
GenesisID(product) == IF product \in ListedProducts THEN 1 ELSE 2

GenesisTokenPair(product, owner) ==
    TokenPair(product[1], product[2], owner,
              DecCoin(DefaultBondDenom, defaultTokenPairDeposit), GenesisID(product))

\* the first address holds one coin of the bond denom
InitPairs ==
    /\ InitLedger
    /\ tokenPairStore = [p \in Products |-> Nil]
    /\ userTokenPairStore = {}
    /\ tokenPairNumber = 0
    /\ cacheTokenPairMap = NewCache.tokenPairMap
    /\ cacheNewTokenPairs = NewCache.newTokenPairs
    /\ withdrawInfoStore = [a \in Addrs |-> Nil]
    /\ withdrawTimeKeys = {}
    /\ dexAccCoins = [a \in Addrs |-> IF a = 1 THEN 1 ELSE 0]
    /\ dexModuleCoins = 0
    /\ blockTime = 0
    /\ withdrawPeriod = 1
    /\ defaultTokenPairDeposit = 0
    /\ call = [op |-> "NewKeeper"]
    /\ ret = NoError

NextPairs ==
    \/ \E product \in RegistryProducts, owner \in Addrs :
           /\ Len(cacheNewTokenPairs) < MaxNewPairs
           /\ SaveTokenPair(GenesisTokenPair(product, owner))
    \/ \E product \in RegistryProducts : GetTokenPairCall(product)
    \/ \E product \in RegistryProducts, owner \in Addrs :
           /\ tokenPairStore[product] # Nil
           /\ UpdateTokenPairCall(product, [tokenPairStore[product] EXCEPT !.Owner = owner])
    \/ \E owner \in Addrs, product \in RegistryProducts :
           DeleteTokenPairByName(owner, product)
    \/ \E product \in ListedProducts, from \in Addrs : Deposit(product, from, UnitDeposit)
    \/ \E product \in ListedProducts, to \in Addrs : Withdraw(product, to, UnitDeposit)
    \/ \E product \in ListedProducts, from \in Addrs, to \in Addrs :
           TransferOwnership(product, from, to)
    \/ ResetCache
    \/ NewKeeper

SpecPairs == InitPairs /\ [][NextPairs]_vars

----------------------------------------------------------------------------
(* x/token: the lock ledger *)

Exceeds(coins, locked) == \E d \in Denoms : AmountOf(coins, d) > AmountOf(locked, d)

LockedNonNegative ==
    \A a \in Addrs : \A d \in Denoms : AmountOf(GetLockCoins(a), d) >= 0

\* C1: with quantity tracking the locked amount of every (address, denom)
\* is never negative, and an Unlock of more than the address has locked in
\* some denom (or with no ledger record) returns an error and leaves the
\* locked ledger, the spendable balances and module custody unchanged.
C1_LockedNeverNegative ==
    /\ []LockedNonNegative
    /\ [][ ( /\ call'.op = "UnlockCoins"
             /\ call'.lockCoinsType = LockCoinsTypeQuantity
             /\ Exceeds(call'.coins, GetLockCoins(call'.addr)) )
           => ( /\ ret' # NoError
                /\ UNCHANGED tokenVars ) ]_vars

\* an overdrawing tracked Unlock has been rejected while the address still
\* has coins locked
C1_Witness ==
    /\ call.op = "UnlockCoins"
    /\ call.lockCoinsType = LockCoinsTypeQuantity
    /\ lockStore[call.addr] # NoLockCoins
    /\ Exceeds(call.coins, GetLockCoins(call.addr))
    /\ ret = "failed to lock"

\* C10: whenever Unlock returns an error, the locked set, the spendable
\* balance and module custody are as before the call.
C10_FailedUnlockNoSideEffects ==
    [][ (call'.op = "UnlockCoins" /\ ret' # NoError) => UNCHANGED tokenVars ]_vars

Covers(coins, amt) == \A d \in Denoms : AmountOf(coins, d) >= AmountOf(amt, d)

LockedOf(store, a) == IF store[a] = NoLockCoins THEN <<>> ELSE store[a]

\* C12: a LockCoins the balance covers succeeds, moves exactly the coins
\* from the address's balance to module custody and, when the quantity is
\* tracked, adds them per denom to the address's locked coins (kept sorted,
\* one entry per denom), leaving other addresses alone; untracked, it leaves
\* the whole ledger unchanged; a LockCoins the balance does not cover fails
\* and changes neither balances nor ledger.
C12_LockMovesAndTracks ==
    [][ call'.op = "LockCoins" =>
        LET addr == call'.addr
            coins == call'.coins
        IN  IF Covers(tokenAccCoins[addr], coins)
            THEN /\ ret' = NoError
                 /\ \A d \in Denoms :
                        /\ AmountOf(tokenAccCoins'[addr], d)
                               = AmountOf(tokenAccCoins[addr], d) - AmountOf(coins, d)
                        /\ AmountOf(tokenModuleCoins', d)
                               = AmountOf(tokenModuleCoins, d) + AmountOf(coins, d)
                 /\ \A a \in Addrs \ {addr} : tokenAccCoins'[a] = tokenAccCoins[a]
                 /\ IF call'.lockCoinsType = LockCoinsTypeQuantity
                    THEN /\ \A d \in Denoms :
                                AmountOf(LockedOf(lockStore', addr), d)
                                    = AmountOf(LockedOf(lockStore, addr), d) + AmountOf(coins, d)
                         /\ IsValidCoins(lockStore'[addr])
                         /\ \A a \in Addrs \ {addr} : lockStore'[a] = lockStore[a]
                    ELSE lockStore' = lockStore
            ELSE /\ ret' # NoError
                 /\ UNCHANGED tokenVars ]_vars

\* a tracked lock of two denoms was merged into coins already locked
C12_Witness ==
    /\ call.op = "LockCoins"
    /\ call.lockCoinsType = LockCoinsTypeQuantity
    /\ ret = NoError
    /\ Len(call.coins) = 2
    /\ lockStore[call.addr] = <<DecCoin(1, 2), DecCoin(2, 1)>>

\* C23: when BalanceAccount has debited outputCoins from the locked coins
\* of the address and custody does not cover inputCoins, it returns the
\* error of the credit, the locked coins of the address stay reduced by
\* outputCoins, and neither custody nor any balance has changed.
C23_SettleKeepsDebitOnFailedCredit ==
    [][ ( /\ call'.op = "BalanceAccount"
          /\ ~IsZeroCoins(call'.outputCoins)
          /\ lockStore[call'.addr] # NoLockCoins
          /\ ~Exceeds(call'.outputCoins, GetLockCoins(call'.addr))
          /\ ~IsZeroCoins(call'.inputCoins)
          /\ ~Covers(tokenModuleCoins, call'.inputCoins) )
        => /\ ret' = "ErrInsufficientCoins"
           /\ \A d \in Denoms :
                  AmountOf(LockedOf(lockStore', call'.addr), d)
                      = AmountOf(GetLockCoins(call'.addr), d) - AmountOf(call'.outputCoins, d)
           /\ \A a \in Addrs \ {call'.addr} : lockStore'[a] = lockStore[a]
           /\ UNCHANGED <<tokenAccCoins, tokenModuleCoins>> ]_vars

\* a settlement has returned the error of its credit after a debit that
\* took locked coins, while custody still holds coins of another denom
C23_Witness ==
    /\ call.op = "BalanceAccount"
    /\ ret = "ErrInsufficientCoins"
    /\ ~IsZeroCoins(call.outputCoins)
    /\ ~IsZeroCoins(call.inputCoins)
    /\ tokenModuleCoins # <<>>
    /\ ~Covers(tokenModuleCoins, call.inputCoins)

\* the amount of denom d locked over the addresses addrs
RECURSIVE LockedTotal(_, _, _)
LockedTotal(store, addrs, d) ==
    IF addrs = {} THEN 0
    ELSE LET a == CHOOSE x \in addrs : TRUE
         IN  AmountOf(LockedOf(store, a), d) + LockedTotal(store, addrs \ {a}, d)

\* the amount of denom d the addresses addrs can spend
RECURSIVE SpendableTotal(_, _, _)
SpendableTotal(accCoins, addrs, d) ==
    IF addrs = {} THEN 0
    ELSE LET a == CHOOSE x \in addrs : TRUE
         IN  AmountOf(accCoins[a], d) + SpendableTotal(accCoins, addrs \ {a}, d)

ValidRecord(coins) == Len(coins) > 0 /\ IsValidCoins(coins)

\* the call debits the locked coins of its address by `coins'
Debits(coins) ==
    \/ /\ call'.op = "UnlockCoins"
       /\ call'.lockCoinsType = LockCoinsTypeQuantity
       /\ coins = call'.coins
    \/ /\ call'.op = "BalanceAccount"
       /\ coins = call'.outputCoins
       /\ ~IsZeroCoins(coins)

\* C22: every stored locked-coins record holds at least one coin, lists its
\* denoms in ascending order, each once, with a positive amount; an Unlock
\* or a Settle debit of exactly what an address has locked deletes the
\* record, and GetLockCoins then returns no coins.
C22_RecordsValidOrDeleted ==
    /\ [](\A a \in Addrs : lockStore[a] # NoLockCoins => ValidRecord(lockStore[a]))
    /\ [][ \A coins \in CoinsInputs \cup LedgerOutputs :
             ( /\ Debits(coins)
               /\ lockStore[call'.addr] # NoLockCoins
               /\ \A d \in Denoms :
                      AmountOf(lockStore[call'.addr], d) = AmountOf(coins, d) )
             => /\ lockStore'[call'.addr] = NoLockCoins
                /\ LockedOf(lockStore', call'.addr) = <<>> ]_vars

\* a Settle debit with a zero amount beside a positive one has taken the
\* last locked coin of an address, whose record is gone, while the other
\* address still has a record
C22_Witness ==
    /\ call.op = "BalanceAccount"
    /\ call.outputCoins = <<DecCoin(1, 0), DecCoin(2, 1)>>
    /\ ret = NoError
    /\ lockStore[call.addr] = NoLockCoins
    /\ \E a \in Addrs : lockStore[a] # NoLockCoins

AllZero(coins) == \A i \in 1..Len(coins) : coins[i].amount = 0

\* C11: BalanceAccount debits outputCoins from the locked set before it
\* credits inputCoins: a debit that fails (no record, or a denom would go
\* negative) returns its error with ledger, custody and balances unchanged;
\* a debit that passes is made even when the credit then fails; zero
\* outputCoins leave the ledger alone and zero inputCoins move no funds.
C11_SettleDebitBeforeCredit ==
    [][ call'.op = "BalanceAccount" =>
        LET addr == call'.addr
            out == call'.outputCoins
            in == call'.inputCoins
            locked == GetLockCoins(addr)
            debitFails == ~AllZero(out) /\ (lockStore[addr] = NoLockCoins \/ Exceeds(out, locked))
        IN  /\ debitFails => /\ ret' \in {"failed to unlock", "failed to lock"}
                             /\ UNCHANGED tokenVars
            /\ ~debitFails =>
                   /\ ret' \notin {"failed to unlock", "failed to lock"}
                   /\ \A a \in Addrs : \A d \in Denoms :
                          AmountOf(IF lockStore'[a] = NoLockCoins THEN <<>> ELSE lockStore'[a], d)
                              = IF a = addr
                                THEN AmountOf(locked, d) - AmountOf(out, d)
                                ELSE AmountOf(GetLockCoins(a), d)
            /\ AllZero(out) => lockStore' = lockStore
            /\ AllZero(in) => UNCHANGED <<tokenAccCoins, tokenModuleCoins>>
            /\ (AllZero(out) /\ AllZero(in)) => ret' = NoError
            /\ (~debitFails /\ ~AllZero(in) /\ Covers(tokenModuleCoins, in))
               => /\ ret' = NoError
                  /\ \A d \in Denoms :
                         /\ AmountOf(tokenModuleCoins', d)
                                = AmountOf(tokenModuleCoins, d) - AmountOf(in, d)
                         /\ AmountOf(tokenAccCoins'[addr], d)
                                = AmountOf(tokenAccCoins[addr], d) + AmountOf(in, d) ]_vars

\* a settlement was refused for its debit, on an address with coins locked,
\* while custody held the coins to credit
C11_Witness ==
    /\ call.op = "BalanceAccount"
    /\ ret = "failed to lock"
    /\ lockStore[call.addr] # NoLockCoins
    /\ ~AllZero(call.inputCoins)
    /\ Covers(tokenModuleCoins, call.inputCoins)

----------------------------------------------------------------------------
(* x/dex: the registry *)

\* C2: after SaveTokenPair(pair), GetTokenPair on the pair's key returns the
\* saved record (the pair as passed, with the ID it was saved under), which
\* is also the record in the store; a pair passed with a non-zero ID keeps it.
C2_SaveThenGet ==
    [][ call'.op = "SaveTokenPair" =>
        LET tokenPair == call'.tokenPair
            product == keyPair(tokenPair)
            got == GetTokenPair(cacheTokenPairMap', tokenPairStore', product).tokenPair
        IN  /\ got # Nil
            /\ got = [tokenPair EXCEPT !.ID = got.ID]
            /\ got = GetTokenPairFromStore(tokenPairStore', product)
            /\ tokenPair.ID # 0 => got.ID = tokenPair.ID ]_vars

\* a pair with an ID was saved again, in the same block, over its key while
\* the counter stood elsewhere
C2_Witness ==
    /\ call.op = "SaveTokenPair"
    /\ call.tokenPair.ID # 0
    /\ Len(cacheNewTokenPairs) = 2
    /\ cacheNewTokenPairs[1] = keyPair(call.tokenPair)
    /\ cacheNewTokenPairs[2] = keyPair(call.tokenPair)
    /\ cacheTokenPairMap[keyPair(call.tokenPair)] = call.tokenPair
    /\ \E p \in Products : /\ tokenPairStore[p] # Nil
                           /\ tokenPairStore[p].ID > call.tokenPair.ID

\* C14: DeleteTokenPairByName(owner, key) leaves no record under the key in
\* the store, no pair under it in the cache and no owner-index entry
\* (owner, key): GetTokenPair(key) is absent and the owner's listing does not
\* hold the key; records, cached pairs and index entries of every other key
\* are as before.
C14_DeleteRemovesPair ==
    [][ call'.op = "DeleteTokenPairByName" =>
        LET product == call'.product
            owner == call'.addr
        IN  /\ tokenPairStore'[product] = Nil
            /\ cacheTokenPairMap'[product] = Nil
            /\ <<owner, product>> \notin userTokenPairStore'
            /\ GetTokenPair(cacheTokenPairMap', tokenPairStore', product).tokenPair = Nil
            /\ product \notin GetUserTokenPairs(userTokenPairStore', owner)
            /\ \A q \in Products \ {product} :
                   /\ tokenPairStore'[q] = tokenPairStore[q]
                   /\ cacheTokenPairMap'[q] = cacheTokenPairMap[q]
                   /\ \A a \in Addrs :
                          (<<a, q>> \in userTokenPairStore') = (<<a, q>> \in userTokenPairStore) ]_vars

\* a pair saved in this block was deleted by its owner while another pair
\* is stored, cached and listed
C14_Witness ==
    /\ call.op = "DeleteTokenPairByName"
    /\ tokenPairStore[call.product] = Nil
    /\ \E i \in 1..Len(cacheNewTokenPairs) : cacheNewTokenPairs[i] = call.product
    /\ \E q \in Products \ {call.product} :
           /\ tokenPairStore[q] # Nil
           /\ cacheTokenPairMap[q] = tokenPairStore[q]
           /\ <<tokenPairStore[q].Owner, q>> \in userTokenPairStore
           /\ tokenPairStore[q].Owner = call.addr

\* the pairs the cache holds, and the records the store holds
CachedPairs(cacheMap) == {cacheMap[p] : p \in {q \in Products : cacheMap[q] # Nil}}
StoredPairs(store) == {store[p] : p \in {q \in Products : store[q] # Nil}}

\* what the keeper serves agrees with the store: GetTokenPair for every
\* key, the pairs the cache holds, and the list GetTokenPairs returns
ServedFromStore(cacheMap, store) ==
    /\ \A p \in Products : GetTokenPair(cacheMap, store, p).tokenPair = store[p]
    /\ CachedPairs(cacheMap) = StoredPairs(store)
    /\ GetTokenPairs(cacheMap, store) = StoredPairs(store)

\* C13: right after ResetCache, whatever the cache held before, the pairs
\* served from the cache (GetTokenPair for every key, and the list of all
\* pairs) are exactly the pair records of the store, and the list of pairs
\* new in this block is empty.
C13_ResetCacheAgrees ==
    [][ call'.op = "ResetCache" =>
        /\ ServedFromStore(cacheTokenPairMap', tokenPairStore')
        /\ cacheNewTokenPairs' = <<>> ]_vars

\* the cache was reset over a store holding every product
C13_Witness ==
    /\ call.op = "ResetCache"
    /\ \A p \in RegistryProducts :
           tokenPairStore[p] # Nil /\ cacheTokenPairMap[p] = tokenPairStore[p]
    /\ cacheNewTokenPairs = <<>>

\* C20: the cache is a write-through mirror of the store from a ResetCache
\* on: ResetCache leaves every key's GetTokenPair answer equal to the
\* stored record (both absent or the same record) and the cached list of all
\* pairs equal to the store's, and every later Save, Get, Update, Delete,
\* Deposit, Withdraw and TransferOwnership, successful or failed, and every
\* further ResetCache keeps them equal.
C20_CacheMirrorsStore ==
    /\ [][ call'.op = "ResetCache"
           => ServedFromStore(cacheTokenPairMap', tokenPairStore') ]_vars
    /\ [][ ( /\ call'.op # "NewKeeper"
             /\ ServedFromStore(cacheTokenPairMap, tokenPairStore) )
           => ServedFromStore(cacheTokenPairMap', tokenPairStore') ]_vars

\* after a restart and a ResetCache (no pair is new in the block, both
\* pairs are cached) a TransferOwnership has failed and the cache mirrors
\* the store
C20_Witness ==
    /\ call.op = "TransferOwnership"
    /\ ret # NoError
    /\ cacheNewTokenPairs = <<>>
    /\ \A p \in RegistryProducts : tokenPairStore[p] # Nil
    /\ ServedFromStore(cacheTokenPairMap, tokenPairStore)

\* the bytes of a product name
NameBytes(product) == SymbolBytes(product[1]) \o <<95>> \o SymbolBytes(product[2])

\* bytes.Compare(NameBytes(p), NameBytes(q)) <= 0
NameNotAfter(p, q) ==
    LET x == NameBytes(p)
        y == NameBytes(q)
        n == IF Len(x) < Len(y) THEN Len(x) ELSE Len(y)
    IN  IF \E i \in 1..n : x[i] # y[i]
        THEN LET i == CHOOSE i \in 1..n : x[i] # y[i] /\ \A j \in 1..(i - 1) : x[j] = y[j]
             IN  x[i] < y[i]
        ELSE Len(x) <= Len(y)

NamesAscending(names, n) ==
    \A i \in 1..n : \A j \in (i + 1)..n : NameNotAfter(names[i], names[j])

Occurrences(names, p) == Cardinality({i \in 1..Len(names) : names[i] = p})

IsPermutation(a, b) ==
    /\ Len(a) = Len(b)
    /\ \A p \in Products : Occurrences(a, p) = Occurrences(b, p)

\* the keys of `names' that GetTokenPair finds a pair for
Registered(names, cacheMap, store) ==
    {i \in 1..Len(names) : GetTokenPair(cacheMap, store, names[i]).tokenPair # Nil}

\* C21 as stated: SortProducts leaves the slice a permutation of its input
\* in ascending byte-wise order of the names, whether or not every key names
\* a registered pair and with or without repeated keys.
C21_SortProductsSortsAnyKeys ==
    [][ call'.op = "SortProducts" =>
        /\ IsPermutation(call'.products, call'.result)
        /\ NamesAscending(call'.result, Len(call'.result)) ]_vars

\* C21: when every key of the slice names a registered pair, SortProducts
\* leaves a permutation of the input in ascending byte-wise order of the
\* names, repeated keys included; in general the first n entries of the
\* result are the n keys that name a registered pair, ascending, and the
\* entries after them are as they were in the input.
C21_SortProductsSortsRegisteredKeys ==
    [][ call'.op = "SortProducts" =>
        LET products == call'.products
            result == call'.result
            found == Registered(products, cacheTokenPairMap, tokenPairStore)
            n == Cardinality(found)
        IN  /\ Len(result) = Len(products)
            /\ NamesAscending(result, n)
            /\ \A p \in Products :
                   Cardinality({i \in 1..n : result[i] = p})
                       = Cardinality({i \in found : products[i] = p})
            /\ \A i \in (n + 1)..Len(products) : result[i] = products[i]
            /\ n = Len(products) =>
                   /\ IsPermutation(products, result)
                   /\ NamesAscending(result, Len(result)) ]_vars

\* three registered keys, one of them twice out of order, were sorted
C21_Witness ==
    /\ call.op = "SortProducts"
    /\ call.products = << <<"ltc", "usdt">>, <<"btc", "usdt">>, <<"ltc", "usdt">> >>
    /\ call.result = << <<"btc", "usdt">>, <<"ltc", "usdt">>, <<"ltc", "usdt">> >>
    /\ tokenPairStore[<<"btc", "usdt">>] # Nil
    /\ tokenPairStore[<<"ltc", "usdt">>] # Nil

\* C19 as stated: a Save of a pair without ID gives it the counter + 1 and
\* stores that as the counter; the stored counter never decreases over any
\* Save, of pairs with an ID included; no two stored pairs with different
\* keys have the same ID.
C19_CounterMonotonic ==
    /\ [][ (call'.op = "SaveTokenPair" /\ call'.tokenPair.ID = 0) =>
             /\ tokenPairStore'[keyPair(call'.tokenPair)].ID = tokenPairNumber + 1
             /\ tokenPairNumber' = tokenPairNumber + 1 ]_vars
    /\ [][ tokenPairNumber' >= tokenPairNumber ]_vars
    /\ [](\A p \in Products : \A q \in Products \ {p} :
             (tokenPairStore[p] # Nil /\ tokenPairStore[q] # Nil)
             => tokenPairStore[p].ID # tokenPairStore[q].ID)

\* C19: a Save of a pair without ID gives it the counter + 1 and stores
\* that as the counter; a Save of a pair with an ID stores the pair with
\* this ID and sets the counter to it, whatever the counter was.
C19_CounterFollowsLastSave ==
    [][ call'.op = "SaveTokenPair" =>
        LET saved == tokenPairStore'[keyPair(call'.tokenPair)]
        IN  /\ call'.tokenPair.ID = 0 =>
                   saved.ID = tokenPairNumber + 1 /\ tokenPairNumber' = tokenPairNumber + 1
            /\ call'.tokenPair.ID # 0 =>
                   saved.ID = call'.tokenPair.ID /\ tokenPairNumber' = call'.tokenPair.ID ]_vars

\* a pair saved without ID has been given the ID another stored pair holds
C19_Witness ==
    /\ call.op = "SaveTokenPair"
    /\ call.tokenPair.ID = 0
    /\ \E q \in Products \ {keyPair(call.tokenPair)} :
           /\ tokenPairStore[q] # Nil
           /\ tokenPairStore[q].ID = tokenPairStore[keyPair(call.tokenPair)].ID

\* the owner index holds (owner, key) exactly for the stored pairs and their
\* owners
LockStep(store, index) ==
    \A a \in Addrs : \A p \in Products :
        (<<a, p>> \in index) <=> (store[p] # Nil /\ store[p].Owner = a)

\* C18 as stated: after any sequence of Save, Update, Delete and
\* TransferOwnership an owner-index entry (owner, key) exists if and only if
\* a pair record with that key is stored and its owner is that owner.
C18_OwnerIndexLockStep == LockStep(tokenPairStore, userTokenPairStore)

\* the calls that keep the index: a Save of a key that is not stored, a
\* Delete given the stored owner, a TransferOwnership (from == to included),
\* an Update that keeps the owner
KeepsOwnerIndex ==
    \/ /\ call'.op = "SaveTokenPair"
       /\ tokenPairStore[keyPair(call'.tokenPair)] = Nil
    \/ /\ call'.op = "DeleteTokenPairByName"
       /\ tokenPairStore[call'.product] # Nil
       /\ tokenPairStore[call'.product].Owner = call'.addr
    \/ call'.op = "TransferOwnership"
    \/ /\ call'.op = "UpdateTokenPair"
       /\ tokenPairStore[call'.product] # Nil
       /\ tokenPairStore[call'.product].Owner = call'.tokenPair.Owner
    \/ call'.op \in {"GetTokenPair", "Deposit", "Withdraw", "ResetCache", "NewKeeper"}

\* C18: the owner index stays in lock-step with the pair records over every
\* Save of a key that is not stored, every Delete given the stored owner,
\* every TransferOwnership (from == to included) and every Update that keeps
\* the owner.
C18_OwnerIndexKeptByOwnerCalls ==
    [][ (KeepsOwnerIndex /\ LockStep(tokenPairStore, userTokenPairStore))
        => LockStep(tokenPairStore', userTokenPairStore') ]_vars

\* the owner of two pairs has handed one of them to itself, and the index
\* lists both pairs for it and nothing else
C18_Witness ==
    /\ call.op = "TransferOwnership"
    /\ call.addr = call.to
    /\ ret = NoError
    /\ LockStep(tokenPairStore, userTokenPairStore)
    /\ \A p \in RegistryProducts : <<call.addr, p>> \in userTokenPairStore

\* the result lists its pairs in ascending byte-wise order of their names,
\* none twice
Ascending(result) ==
    \A i \in 1..Len(result) : \A j \in (i + 1)..Len(result) :
        TokenPairsLess(result[i], result[j])

Listed(result) == {result[i] : i \in 1..Len(result)}

\* C15 as stated: GetTokenPairsOrdered returns every registered pair exactly
\* once, in ascending byte-wise order of the "base_quote" names, whatever the
\* order the pairs were saved in.
C15_OrderedListsEveryPair ==
    [][ call'.op = "GetTokenPairsOrdered" =>
        /\ Ascending(call'.result)
        /\ Listed(call'.result) = StoredPairs(tokenPairStore) ]_vars

\* C15: GetTokenPairsOrdered returns pairs in ascending byte-wise order of
\* their names, none twice, each the stored record of a registered pair; it
\* returns every registered pair when the cache holds no pair or holds every
\* stored pair, whatever the order the pairs were saved in; when the cache
\* holds only some of the stored pairs it returns exactly the cached ones.
C15_OrderedListsCachedPairs ==
    [][ call'.op = "GetTokenPairsOrdered" =>
        /\ Ascending(call'.result)
        /\ Listed(call'.result) \subseteq StoredPairs(tokenPairStore)
        /\ ( \/ CachedPairs(cacheTokenPairMap) = {}
             \/ CachedPairs(cacheTokenPairMap) = StoredPairs(tokenPairStore) )
           => Listed(call'.result) = StoredPairs(tokenPairStore)
        /\ CachedPairs(cacheTokenPairMap) # {}
           => Listed(call'.result) = CachedPairs(cacheTokenPairMap) ]_vars

\* eth_usdt, btc_usdt and ltc_usdt were saved in this order and are listed
\* as btc_usdt, eth_usdt, ltc_usdt
C15_Witness ==
    /\ call.op = "GetTokenPairsOrdered"
    /\ Len(call.result) = 3
    /\ call.result[1].BaseAssetSymbol = "btc" /\ call.result[1].ID = 2
    /\ call.result[2].BaseAssetSymbol = "eth" /\ call.result[2].ID = 1
    /\ call.result[3].BaseAssetSymbol = "ltc" /\ call.result[3].ID = 3

----------------------------------------------------------------------------
(* x/dex: the withdraw queue *)

\* the times a scan is made at
ScanTimes == 0..(MaxTime + 3)

TimeIndexEntries == {SplitWithdrawTimeKey(k) : k \in withdrawTimeKeys}

\* the (time, owner) entries a scan up to `now' hands out, in order
ScanEntries(infos, timeKeys, now) ==
    LET keys == withdrawTimeKeyIterator(infos, timeKeys, now)
    IN  [i \in 1..Len(keys) |-> SplitWithdrawTimeKey(keys[i])]

ScanOwners(infos, timeKeys, now) ==
    LET scan == ScanEntries(infos, timeKeys, now)
    IN  {scan[i].addr : i \in 1..Len(scan)}

EntryBefore(e, f) == e.time < f.time \/ (e.time = f.time /\ e.addr < f.addr)

MergedWithdraw ==
    /\ call'.op = "Withdraw"
    /\ ret' = NoError
    /\ withdrawInfoStore[call'.addr] # Nil

MergedRecord ==
    LET old == withdrawInfoStore[call'.addr]
        new == withdrawInfoStore'[call'.addr]
    IN  /\ new # Nil
        /\ new.Owner = call'.addr
        /\ new.Deposits.amount = old.Deposits.amount + call'.amount.amount
        /\ new.CompleteTime = blockTime' + withdrawPeriod'

C4_CompleteOnce ==
    /\ [][ (call'.op = "CompleteWithdraw" /\ ret' = NoError)
           => withdrawInfoStore'[call'.addr] = Nil ]_vars
    /\ [][ (call'.op = "CompleteWithdraw" /\ withdrawInfoStore[call'.addr] = Nil)
           => /\ ret' = ErrNoWithdrawing
              /\ UNCHANGED <<pairVars, withdrawVars, bankVars>> ]_vars
    /\ [][ \A a \in Addrs :
             (withdrawInfoStore[a] = Nil /\ withdrawInfoStore'[a] # Nil)
             => /\ call'.op \in {"Withdraw", "TransferOwnership"}
                /\ call'.addr = a
                /\ ret' = NoError ]_vars

\* CompleteWithdraw has failed for an owner whose earlier withdrawal was
\* completed (its time key is still there, its record is not)
C4_Witness ==
    /\ call.op = "CompleteWithdraw"
    /\ ret = ErrNoWithdrawing
    /\ withdrawInfoStore[call.addr] = Nil
    /\ \E e \in TimeIndexEntries : e.addr = call.addr

\* C5: a successful CompleteWithdraw pays the whole pending amount from
\* custody to the owner and leaves neither the owner's WithdrawInfo nor any
\* time-index key of the owner in the store.
C5_CompleteDeletesRecordAndTimeKey ==
    [][ (call'.op = "CompleteWithdraw" /\ ret' = NoError) =>
        LET addr == call'.addr
            pending == withdrawInfoStore[addr].Deposits.amount
        IN  /\ dexModuleCoins' = dexModuleCoins - pending
            /\ dexAccCoins'[addr] = dexAccCoins[addr] + pending
            /\ withdrawInfoStore'[addr] = Nil
            /\ \A e \in {SplitWithdrawTimeKey(k) : k \in withdrawTimeKeys'} :
                   e.addr # addr ]_vars

\* the steps that change the withdraw record of `a': made by a successful
\* Withdraw (or the withdrawal inside TransferOwnership) of `a', which adds
\* to the amount and sets the completion time anew, or removed by a
\* CompleteWithdraw of `a'
WithdrawInfoStep(a) ==
    LET old == withdrawInfoStore[a]
        new == withdrawInfoStore'[a]
    IN  /\ (old = Nil /\ new # Nil) =>
               /\ call'.op \in {"Withdraw", "TransferOwnership"}
               /\ call'.addr = a
               /\ ret' = NoError
               /\ new.CompleteTime = blockTime + withdrawPeriod
        /\ (old # Nil /\ new # Nil /\ new # old) =>
               /\ call'.op \in {"Withdraw", "TransferOwnership"}
               /\ call'.addr = a
               /\ ret' = NoError
               /\ new.Deposits.amount >= old.Deposits.amount
               /\ new.CompleteTime = blockTime + withdrawPeriod
        /\ (old # Nil /\ new = Nil) =>
               /\ call'.op = "CompleteWithdraw"
               /\ call'.addr = a
               /\ ret' = NoError
        /\ (call'.op = "CompleteWithdraw" /\ call'.addr = a /\ old = Nil) =>
               /\ ret' # NoError
               /\ new = Nil

\* the record of `a' is removed or paid out only at or after its completion
\* time
CompletedWhenMature(a) ==
    LET old == withdrawInfoStore[a]
    IN  /\ (old # Nil /\ withdrawInfoStore'[a] = Nil) => blockTime >= old.CompleteTime
        /\ dexAccCoins'[a] > dexAccCoins[a] =>
               old # Nil /\ blockTime >= old.CompleteTime

\* C16 as stated: the withdraw record of an owner goes from absent to
\* pending and from pending to pending (amount added, completion time set
\* anew) by Withdraw only, and from pending to absent by CompleteWithdraw at
\* or after its completion time only; no step removes or pays out a record
\* before its completion time; CompleteWithdraw without a record fails.
C16_WithdrawInfoTransitions ==
    [][ \A a \in Addrs : WithdrawInfoStep(a) /\ CompletedWhenMature(a) ]_vars

\* C16: the withdraw record of an owner goes from absent to pending and
\* from pending to pending (amount added, completion time set anew) by a
\* successful Withdraw only, and from pending to absent by a successful
\* CompleteWithdraw only, at whatever block time it is called;
\* CompleteWithdraw without a record fails.
C16_WithdrawInfoTransitionsAnyTime ==
    [][ \A a \in Addrs : WithdrawInfoStep(a) ]_vars

\* a withdrawal was completed and paid out before its completion time
C16_Witness ==
    /\ call.op = "CompleteWithdraw"
    /\ ret = NoError
    /\ withdrawInfoStore[call.addr] = Nil
    /\ dexAccCoins[call.addr] > 0
    /\ \E e \in TimeIndexEntries : e.addr = call.addr /\ e.time > blockTime

\* the time-index entries of owner `a'
EntriesOf(a) == {e \in TimeIndexEntries : e.addr = a}

\* C17 as stated: the time index and the withdraw records agree exactly:
\* every record is its owner's, has exactly one time-index entry, at its
\* completion time, and every time-index entry (t, owner) is that of a
\* record of the owner with completion time t.
C17_TimeIndexAgrees ==
    /\ \A a \in Addrs :
           withdrawInfoStore[a] # Nil =>
               /\ withdrawInfoStore[a].Owner = a
               /\ EntriesOf(a) = {[time |-> withdrawInfoStore[a].CompleteTime, addr |-> a]}
    /\ \A e \in TimeIndexEntries :
           /\ withdrawInfoStore[e.addr] # Nil
           /\ withdrawInfoStore[e.addr].CompleteTime = e.time

\* C17: every withdraw record is its owner's and has a time-index entry at
\* its completion time, and a Withdraw that adds to a record removes the
\* entry at the record's former completion time unless that is the new one.
C17_RecordsIndexed ==
    /\ [](\A a \in Addrs :
             withdrawInfoStore[a] # Nil =>
                 /\ withdrawInfoStore[a].Owner = a
                 /\ [time |-> withdrawInfoStore[a].CompleteTime, addr |-> a] \in EntriesOf(a))
    /\ [][ \A a \in Addrs :
             ( /\ withdrawInfoStore[a] # Nil
               /\ withdrawInfoStore'[a] # Nil
               /\ withdrawInfoStore'[a].CompleteTime # withdrawInfoStore[a].CompleteTime )
             => GetWithdrawTimeAddressKey(withdrawInfoStore[a].CompleteTime, a)
                    \notin withdrawTimeKeys' ]_vars

\* an owner has a pending record and, beside its entry, the entry of an
\* earlier withdrawal that was completed
C17_Witness ==
    \E a \in Addrs :
        /\ withdrawInfoStore[a] # Nil
        /\ Cardinality(EntriesOf(a)) = 2
        /\ [time |-> withdrawInfoStore[a].CompleteTime, addr |-> a] \in EntriesOf(a)

ScanExact ==
    \A now \in ScanTimes :
        LET scan == ScanEntries(withdrawInfoStore, withdrawTimeKeys, now)
        IN  /\ {scan[i] : i \in 1..Len(scan)} = {e \in TimeIndexEntries : e.time <= now}
            /\ \A i \in 1..Len(scan) : \A j \in 1..Len(scan) :
                   i < j => EntryBefore(scan[i], scan[j])

PendingScanned ==
    \A a \in Addrs :
        withdrawInfoStore[a] # Nil =>
            \A now \in ScanTimes :
                now >= withdrawInfoStore[a].CompleteTime =>
                    a \in ScanOwners(withdrawInfoStore, withdrawTimeKeys, now)

\* C6: a scan up to `now' hands out exactly the time-index entries with
\* completion time <= now, by ascending time and then owner; an owner with a
\* pending record is in every scan from its completion time on; and after
\* the one Withdraw of an owner with no time-index entry, made at time T,
\* the owner is in no scan at a time < T + period.
C6_ScanUpToNow ==
    /\ []ScanExact
    /\ []PendingScanned
    /\ [][ \A a \in Addrs :
             ( /\ \A e \in TimeIndexEntries : e.addr # a
               /\ withdrawInfoStore'[a] # Nil )
             => \A now \in ScanTimes :
                    now < blockTime' + withdrawPeriod'
                    => a \notin ScanOwners(withdrawInfoStore', withdrawTimeKeys', now) ]_vars

\* a scan at exactly the completion time of a pending record hands out two
\* entries of that time, the owners in address order
C6_Witness ==
    \E now \in ScanTimes :
        LET scan == ScanEntries(withdrawInfoStore, withdrawTimeKeys, now)
        IN  /\ Len(scan) >= 2
            /\ scan[Len(scan)].time = now
            /\ scan[Len(scan) - 1].time = now
            /\ \E a \in Addrs : /\ withdrawInfoStore[a] # Nil
                                /\ withdrawInfoStore[a].CompleteTime = now

TransferByOwner ==
    /\ call'.op = "TransferOwnership"
    /\ tokenPairStore[call'.product] # Nil
    /\ tokenPairStore[call'.product].Owner = call'.addr
    /\ tokenPairStore[call'.product].Deposits.amount > 0

TransferMovesDeposit ==
    LET product == call'.product
        from == call'.addr
        pending == IF withdrawInfoStore[from] = Nil THEN 0
                   ELSE withdrawInfoStore[from].Deposits.amount
    IN  /\ ret' = NoError
        /\ withdrawInfoStore'[from] # Nil
        /\ withdrawInfoStore'[from].Deposits.amount
               = pending + tokenPairStore[product].Deposits.amount
        /\ UNCHANGED bankVars
        /\ tokenPairStore'[product].Owner = call'.to
        /\ tokenPairStore'[product].Deposits
               = DecCoin(DefaultBondDenom, defaultTokenPairDeposit)
        /\ <<call'.to, product>> \in userTokenPairStore'

\* C7 as claimed: TransferOwnership by the owner of a pair with a positive
\* deposit moves the deposit into a pending withdrawal of `from' and leaves
\* owner = to, deposit = default, the owner-index entry (from, key) removed
\* and (to, key) present.
C7_TransferSwapsIndex ==
    [][ TransferByOwner =>
        /\ TransferMovesDeposit
        /\ <<call'.addr, call'.product>> \notin userTokenPairStore' ]_vars

\* C7 amended: as claimed, the entry (from, key) being removed when
\* from # to (with from = to it is the entry (to, key), which is present).
C7_TransferSwapsIndexUnlessSelf ==
    [][ TransferByOwner =>
        /\ TransferMovesDeposit
        /\ call'.addr # call'.to
           => <<call'.addr, call'.product>> \notin userTokenPairStore' ]_vars

\* ownership went to another address under a non-zero default deposit: the
\* old owner's withdrawal is pending from this block on
C7_Witness ==
    /\ call.op = "TransferOwnership"
    /\ ret = NoError
    /\ call.addr # call.to
    /\ defaultTokenPairDeposit > 0
    /\ tokenPairStore[call.product].Owner = call.to
    /\ tokenPairStore[call.product].Deposits.amount = defaultTokenPairDeposit
    /\ withdrawInfoStore[call.addr] # Nil
    /\ withdrawInfoStore[call.addr].CompleteTime = blockTime + withdrawPeriod
    /\ userTokenPairStore = {<<call.to, call.product>>}

\* the errors the three calls answer an absent pair, a caller who is not the
\* owner and a wrong denom with, in this order
RejectedInOrder ==
    LET tokenPair == tokenPairStore[call'.product]
    IN  /\ call'.op \in {"Deposit", "Withdraw"} =>
           /\ tokenPair = Nil => ret' = ErrNonExistProduct
           /\ (tokenPair # Nil /\ tokenPair.Owner # call'.addr)
              => ret' = ErrNotOwner
           /\ ( /\ tokenPair # Nil
                /\ tokenPair.Owner = call'.addr
                /\ call'.amount.denom # DefaultBondDenom )
              => ret' = ErrOnlyBondDenom
        /\ call'.op = "TransferOwnership" =>
           /\ tokenPair = Nil => ret' = ErrNonExistProduct
           /\ (tokenPair # Nil /\ tokenPair.Owner # call'.addr)
              => ret' = ErrUnauthorizedOwner

\* a rejected Deposit or Withdraw, and a TransferOwnership rejected for its
\* pair or caller
RejectedCall ==
    \/ call'.op \in {"Deposit", "Withdraw"} /\ ret' # NoError
    \/ /\ call'.op = "TransferOwnership"
       /\ ret' \in {ErrNonExistProduct, ErrUnauthorizedOwner}

\* C8 as claimed: the three calls reject an absent pair, then a caller who is
\* not the owner, then (Deposit, Withdraw) an amount not in the bond denom;
\* every call so rejected, a Deposit whose custody transfer fails and a
\* Withdraw of more than the deposit leave the pair store, the cache, the
\* owner index, the withdraw queue and the balances unchanged.
C8_RejectedCallsChangeNothing ==
    [][ call'.op \in {"Deposit", "Withdraw", "TransferOwnership"} =>
        /\ RejectedInOrder
        /\ RejectedCall => UNCHANGED <<pairVars, withdrawVars, bankVars>> ]_vars

\* C8 amended: as claimed, except that the cache is unchanged only up to
\* the lookup: a stored pair that was not cached is cached, as stored.
C8_RejectedCallsChangeOnlyCacheFill ==
    [][ call'.op \in {"Deposit", "Withdraw", "TransferOwnership"} =>
        /\ RejectedInOrder
        /\ RejectedCall =>
           /\ UNCHANGED <<tokenPairStore, userTokenPairStore, tokenPairNumber,
                          cacheNewTokenPairs, withdrawVars, bankVars>>
           /\ \A p \in Products :
                  \/ cacheTokenPairMap'[p] = cacheTokenPairMap[p]
                  \/ /\ p = call'.product
                     /\ cacheTokenPairMap[p] = Nil
                     /\ cacheTokenPairMap'[p] = tokenPairStore[p] ]_vars

\* a Withdraw by a non-owner, in a wrong denom too, was rejected for the owner
C8_Witness ==
    /\ call.op = "Withdraw"
    /\ ret = ErrNotOwner
    /\ call.amount.denom # DefaultBondDenom
    /\ tokenPairStore[call.product] # Nil
    /\ tokenPairStore[call.product].Deposits.amount > 0

\* the deposits of the pairs of `products' and the pending amounts of the
\* withdraw records of `addrs'
RECURSIVE DepositsOf(_, _)
DepositsOf(store, products) ==
    IF products = {} THEN 0
    ELSE LET p == CHOOSE x \in products : TRUE
         IN  (IF store[p] = Nil THEN 0 ELSE store[p].Deposits.amount)
                 + DepositsOf(store, products \ {p})

RECURSIVE PendingOf(_, _)
PendingOf(infos, addrs) ==
    IF addrs = {} THEN 0
    ELSE LET a == CHOOSE x \in addrs : TRUE
         IN  (IF infos[a] = Nil THEN 0 ELSE infos[a].Deposits.amount)
                 + PendingOf(infos, addrs \ {a})

\* what custody holds beyond the pairs' deposits and the pending withdrawals
Surplus(custody, store, infos) ==
    custody - DepositsOf(store, Products) - PendingOf(infos, Addrs)

\* C24 as stated: from pairs registered with no deposit and an empty
\* withdraw queue on, for any default deposit, the custody of the dex module
\* equals the pairs' deposits plus the pending withdrawals, and
\* CompleteWithdraw of a pending record is never short of funds.
C24_CustodyConserved ==
    /\ [](Surplus(dexModuleCoins, tokenPairStore, withdrawInfoStore) = 0)
    /\ [][ (call'.op = "CompleteWithdraw" /\ withdrawInfoStore[call'.addr] # Nil)
           => ret' = NoError ]_vars

\* C24: from pairs registered with no deposit and an empty withdraw queue
\* on, every successful TransferOwnership lowers the surplus of custody over
\* the pairs' deposits plus the pending withdrawals by the default deposit
\* (the pair's deposit is set to the default and no funds move), and every
\* other call leaves the surplus as it is; with a default deposit of zero
\* custody equals the deposits plus the pending withdrawals, and
\* CompleteWithdraw of a pending record is never short of funds.
C24_CustodyConservedButForDefault ==
    /\ [][ Surplus(dexModuleCoins', tokenPairStore', withdrawInfoStore')
             = Surplus(dexModuleCoins, tokenPairStore, withdrawInfoStore)
               - (IF call'.op = "TransferOwnership" /\ ret' = NoError
                  THEN defaultTokenPairDeposit ELSE 0) ]_vars
    /\ [](defaultTokenPairDeposit = 0
           => Surplus(dexModuleCoins, tokenPairStore, withdrawInfoStore) = 0)
    /\ [][ ( /\ defaultTokenPairDeposit = 0
             /\ call'.op = "CompleteWithdraw"
             /\ withdrawInfoStore[call'.addr] # Nil )
           => ret' = NoError ]_vars

\* with a default deposit of 1 an ownership transfer has left the new owner
\* a deposit that custody does not hold
C24_Witness ==
    /\ call.op = "TransferOwnership"
    /\ ret = NoError
    /\ defaultTokenPairDeposit = 1
    /\ tokenPairStore[call.product].Deposits.amount = 1
    /\ withdrawInfoStore[call.addr] # Nil
    /\ Surplus(dexModuleCoins, tokenPairStore, withdrawInfoStore) = -1

DepositsNonNegative ==
    \A p \in Products :
        tokenPairStore[p] # Nil => tokenPairStore[p].Deposits.amount >= 0

\* C9: a Withdraw by the owner, in the bond denom, of more than the pair's
\* deposit fails with the insufficient-coins error; of at most the deposit it
\* succeeds, takes exactly the amount off the deposit and moves no funds; and
\* no pair's deposit is ever negative.
C9_WithdrawWithinDeposit ==
    /\ []DepositsNonNegative
    /\ [][ ( /\ call'.op = "Withdraw"
             /\ tokenPairStore[call'.product] # Nil
             /\ tokenPairStore[call'.product].Owner = call'.addr
             /\ call'.amount.denom = DefaultBondDenom )
           => LET deposits == tokenPairStore[call'.product].Deposits.amount
                  amount == call'.amount.amount
              IN  IF amount > deposits
                  THEN /\ ret' = ErrDepositsLessThanWithdraw
                       /\ UNCHANGED <<tokenPairStore, withdrawVars, bankVars>>
                  ELSE /\ ret' = NoError
                       /\ tokenPairStore'[call'.product].Deposits.amount
                              = deposits - amount
                       /\ UNCHANGED bankVars ]_vars

\* the whole deposit was withdrawn: the call succeeded and left deposit 0
\* while the funds are still in custody
C9_Witness ==
    /\ call.op = "Withdraw"
    /\ ret = NoError
    /\ tokenPairStore[call.product].Deposits.amount = 0
    /\ dexModuleCoins >= call.amount.amount
    /\ withdrawInfoStore[call.addr].Deposits.amount = call.amount.amount

====
